---- MODULE Spec2Model ----
(***************************************************************************)
(* Order / payment lifecycle of the pet shop server (routes/payment.js):   *)
(* POST /api/payment/create-intent, POST /api/payment/confirm and          *)
(* POST /api/payment/webhook, over the sqlite tables of database/init.js,  *)
(* together with the Stripe gateway and the admin product update of        *)
(* routes/shop.js.                                                         *)
(*                                                                         *)
(* Every db.get / db.run / db.all statement is one atomic step: sqlite3    *)
(* runs the statements of the shared connection one at a time, in no       *)
(* guaranteed order, and calls the callback afterwards.  A statement and   *)
(* its callback are taken as one step (a callback touches only the locals  *)
(* of its request, the response and the statements it issues).             *)
(***************************************************************************)
EXTENDS Integers, Sequences, FiniteSets, TLC

\* ------------------------------------------------------------------ bounds
MaxCreate == 2      \* create-intent requests
MaxConfirm == 2     \* confirm requests
MaxWebhook == 2     \* webhook requests
MaxAdminOps == 1    \* admin product updates
MaxInFlight == 2    \* requests the server works on at the same time
MaxRequests == 3    \* requests of all kinds in one run
MaxBeside == 0      \* other requests in flight while a create-intent request is
                    \* between its lookups and the creation of its intent
MaxQty == 2         \* largest quantity a cart item asks for
InitStock == 1      \* stock_quantity of product 1 in the initial store
NumUsers == 2       \* registered users

Users == 1..NumUsers
Buyers == {1}               \* the users who check out (the others only confirm)
ProductIds == {1}           \* rows of shop_products
PetIds == {1}               \* rows of pets
MaxCart == 2                \* items of the longest cart sent
Prices == {3, 5}            \* catalog prices
NoQty == 0                  \* the cart item carries no quantity field
NoPrice == 0                \* the cart item carries no price field
NoRow == [none |-> TRUE]    \* db.get found nothing
MaxAuthReq == 2             \* requests to the routes behind protect
MaxRegister == 3            \* register requests
AdminId == 1                \* id of the default admin user, the first row of users
NoToken == [none |-> TRUE]  \* no Authorization: Bearer header

VARIABLES
  shop_products,  \* table shop_products: id -> [price, stock_quantity, is_available]
  pets,           \* table pets: id -> [price, is_available]
  orders,         \* table orders: sequence, index = id (AUTOINCREMENT)
  order_items,    \* table order_items: sequence, index = id
  payments,       \* table payments: sequence, index = id
  gateway,        \* Stripe payment intents: id -> [status, order]
  ci,             \* create-intent requests
  cf,             \* confirm requests
  wh,             \* webhook requests
  up,             \* the node process is running
  adminOps,       \* admin product updates done so far
  applied,        \* per order_items row: how many times confirm applied its side effect
  hist,           \* per order: what happened to the request that created it and
                  \* to the confirm requests that named it (history, not program state)
  delivered,      \* per intent: payment_intent.succeeded updates run (history)
  last,           \* the answer the server sent last
  users,          \* table users: id -> [id, role, is_active]
  rq,             \* requests to the routes behind protect / authorize
  routed,         \* the request dispatched last and the handler that got it
  accounts,       \* table users, columns username and email: id -> [username, email]
  rg              \* register requests

vars == <<shop_products, pets, orders, order_items, payments, gateway,
          ci, cf, wh, up, adminOps, applied, hist, delivered, last, users, rq,
          routed, accounts, rg>>

\* The state of the users table and of the requests that go through the
\* authentication middleware.
auth == <<users, rq>>

\* The state of the other routers.
aside == <<routed, accounts, rg>>

tables == <<shop_products, pets, orders, order_items, payments>>

\* ----------------------------------------------------------------- helpers
RECURSIVE SumSeq(_)
SumSeq(s) == IF s = <<>> THEN 0 ELSE Head(s) + SumSeq(Tail(s))

\* const { type, id, quantity = 1 } = item
Quantity(item) == IF item.quantity = NoQty THEN 1 ELSE item.quantity

Item(t, i, q, p) == [type |-> t, id |-> i, quantity |-> q, price |-> p]

\* Request bodies that are sent to create-intent.
Carts ==
  { <<>>,
    <<Item("product", 1, NoQty, NoPrice)>>,
    <<Item("product", 1, MaxQty, 1)>>,
    <<Item("pet", 1, NoQty, NoPrice), Item("product", 1, 1, NoPrice)>>,
    <<Item("product", 2, NoQty, NoPrice), Item("product", 1, NoQty, NoPrice)>> }

\* express-validator chain of create-intent
ValidCreateBody(cart) ==
  /\ Len(cart) >= 1
  /\ \A k \in DOMAIN cart :
       /\ cart[k].type \in {"pet", "product"}
       /\ cart[k].id >= 1
       /\ cart[k].quantity = NoQty \/ cart[k].quantity >= 1

\* SELECT ... FROM pets / shop_products WHERE id = ?
GetRow(table, id) == IF id \in DOMAIN table THEN table[id] ELSE NoRow

\* The row the lookup of a cart item returns.
Catalog(item) ==
  IF item.type = "pet" THEN GetRow(pets, item.id) ELSE GetRow(shop_products, item.id)

\* The conditions under which the lookup callback answers 400.
LookupError(item, row) ==
  IF row = NoRow THEN
    IF item.type = "pet" THEN "Pet not found" ELSE "Product not found"
  ELSE IF item.type = "pet" THEN
    IF ~row.is_available THEN "Pet not available" ELSE "none"
  ELSE
    IF ~row.is_available \/ row.stock_quantity < Quantity(item)
    THEN "Product not available" ELSE "none"

\* Sum of catalog price x quantity over the whole submitted cart, now.
CatalogTotal(cart) ==
  SumSeq([k \in DOMAIN cart |->
            IF Catalog(cart[k]) = NoRow THEN 0
            ELSE Catalog(cart[k]).price * Quantity(cart[k])])

\* Every item of the cart resolves, now.
CartResolves(cart) ==
  \A k \in DOMAIN cart : LookupError(cart[k], Catalog(cart[k])) = "none"

\* ------------------------------------------------------------------- state
IdleCreate ==
  [pc |-> "idle", user |-> 0, cart |-> <<>>, pending |-> {}, totalAmount |-> 0,
   orderItems |-> <<>>, orderTotal |-> 0, orderId |-> 0, toInsert |-> <<>>,
   intent |-> 0, payAmount |-> 0, resp |-> "none", rejected |-> FALSE]

IdleConfirm ==
  [pc |-> "idle", user |-> 0, order |-> 0, intent |-> 0, payUpdate |-> FALSE,
   select |-> FALSE, items |-> {}, sequential |-> FALSE]

IdleWebhook ==
  [pc |-> "idle", body |-> "none", sig |-> "none", type |-> "none", intent |-> 0]

\* History of an order that is being inserted.
NewHist(req, total, resolves) ==
  [rejected |-> req.rejected,     \* a lookup of its request answered an item error
   resolved |-> resolves,         \* every item of its cart resolved when it was inserted
   catalogTotal |-> total,        \* catalog price x quantity of its cart when it was inserted
   answer |-> req.resp,           \* the answer its request got
   confirmedBy |-> 0,             \* the intent of the first confirm answered with success
   overlap |-> FALSE]             \* a confirm for it arrived while another was unanswered

NotRouted == [router |-> "none", method |-> "none", path |-> <<>>, handler |-> "none"]

IdleRequest ==
  [pc |-> "idle", token |-> NoToken, route |-> "none", target |-> 0, user |-> NoRow,
   resp |-> "none", stale |-> FALSE]

IdleRegister == [pc |-> "idle", username |-> 0, email |-> 0, resp |-> "none"]

\* The username and the email of the users the store starts with.
SeedAccounts == [u \in Users |-> [username |-> u, email |-> u]]

\* A finished request keeps nothing.
DoneCreate == [IdleCreate EXCEPT !.pc = "done"]
DoneConfirm == [IdleConfirm EXCEPT !.pc = "done"]
DoneWebhook == [IdleWebhook EXCEPT !.pc = "done"]


Init ==
  /\ shop_products = [p \in ProductIds |->
                        [price |-> 5, stock_quantity |-> InitStock, is_available |-> TRUE]]
  /\ pets = [p \in PetIds |-> [price |-> 3, is_available |-> TRUE]]
  /\ orders = <<>>
  /\ order_items = <<>>
  /\ payments = <<>>
  /\ gateway = <<>>
  /\ ci = [r \in 1..MaxCreate |-> IdleCreate]
  /\ cf = [c \in 1..MaxConfirm |-> IdleConfirm]
  /\ wh = [w \in 1..MaxWebhook |-> IdleWebhook]
  /\ up = TRUE
  /\ adminOps = 0
  /\ applied = <<>>
  /\ hist = <<>>
  /\ delivered = <<>>
  /\ last = "none"
  /\ users = [u \in Users |->
                [id |-> u, role |-> IF u = AdminId THEN "admin" ELSE "user",
                 is_active |-> TRUE]]
  /\ rq = [q \in 1..MaxAuthReq |-> IdleRequest]
  /\ routed = NotRouted
  /\ accounts = SeedAccounts
  /\ rg = [g \in 1..MaxRegister |-> IdleRegister]

\* res.status(..).json(..): the first call answers the request; a further call
\* throws ERR_HTTP_HEADERS_SENT, which nothing catches, and the process exits.
Answered(req) == req.resp # "none"
Respond(req, msg) == IF Answered(req) THEN req ELSE [req EXCEPT !.resp = msg]

\* ------------------------------------------------- POST /create-intent
\* A create-intent request whose handler and callbacks have all run.
CreateFinished(req) == req.pc = "done" /\ req.pending = {}

\* The closure of a finished request is garbage.
Collect(req) == IF CreateFinished(req) THEN DoneCreate ELSE req

\* The answer on the wire after a handler step of request req that tried to
\* send msg.
Sent(req, msg) == IF Answered(req) THEN last ELSE msg

\* The history of order o after its request was answered or met an item error.
Answer(o, req) ==
  IF o = 0 THEN hist
  ELSE [hist EXCEPT ![o] = [@ EXCEPT !.answer = req.resp, !.rejected = req.rejected]]

CreateInFlight == {r \in 1..MaxCreate : ci[r].pc # "idle" /\ ~CreateFinished(ci[r])}
ConfirmInFlight == {c \in 1..MaxConfirm : cf[c].pc \notin {"idle", "done"}}
WebhookInFlight == {w \in 1..MaxWebhook : wh[w].pc \notin {"idle", "done"}}
InFlight == Cardinality(CreateInFlight) + Cardinality(ConfirmInFlight)
              + Cardinality(WebhookInFlight)
Started == Cardinality({r \in 1..MaxCreate : ci[r].pc # "idle"})
             + Cardinality({c \in 1..MaxConfirm : cf[c].pc # "idle"})
             + Cardinality({w \in 1..MaxWebhook : wh[w].pc # "idle"})

\* The create-intent requests that have not got as far as their intent.
Creating ==
  {r \in 1..MaxCreate : ci[r].pc \in {"waiting", "insertOrder", "insertItems", "createIntent"}}

\* The server accepts one more request.
Accepts == up /\ InFlight < MaxInFlight /\ Started + adminOps < MaxRequests

\* ... beside the create-intent requests at work.
AcceptsBeside ==
  Accepts /\ (Creating # {} => InFlight - Cardinality(Creating) < MaxBeside)

\* The handler up to the end of the for loop: every lookup is issued.
CIStart(r, u, cart) ==
  /\ Accepts
  /\ InFlight <= MaxBeside
  /\ ci[r].pc = "idle"
  /\ \A q \in 1..(r - 1) : ci[q].pc # "idle"
  /\ IF ~ValidCreateBody(cart)
     THEN /\ ci' = [ci EXCEPT ![r] = DoneCreate]
          /\ last' = "Validation failed"
     ELSE /\ ci' = [ci EXCEPT ![r] = [@ EXCEPT !.pc = "waiting", !.user = u, !.cart = cart,
                                              !.pending = DOMAIN cart]]
          /\ last' = last
  /\ UNCHANGED auth
  /\ UNCHANGED aside
  /\ UNCHANGED <<tables, gateway, cf, wh, up, adminOps, applied, hist, delivered>>

\* db.get of cart item k and its callback.
CILookup(r, k) ==
  /\ up
  /\ k \in ci[r].pending
  /\ LET item == ci[r].cart[k]
         row == Catalog(item)
         err == LookupError(item, row)
         rest == [ci[r] EXCEPT !.pending = @ \ {k}]
         failed == [Respond(rest, err) EXCEPT !.rejected = TRUE]
     IN IF err # "none"
        THEN /\ ci' = [ci EXCEPT ![r] = Collect(failed)]
             /\ hist' = Answer(ci[r].orderId, failed)
             /\ last' = Sent(ci[r], err)
             /\ up' = ~Answered(ci[r])
        ELSE /\ ci' = [ci EXCEPT ![r] =
                         Collect([rest EXCEPT
                            !.totalAmount = @ + row.price * Quantity(item),
                            !.orderItems = Append(@, [type |-> item.type, id |-> item.id,
                                                      price |-> row.price,
                                                      quantity |-> Quantity(item)])])]
             /\ UNCHANGED <<up, hist, last>>
  /\ UNCHANGED auth
  /\ UNCHANGED aside
  /\ UNCHANGED <<tables, gateway, cf, wh, adminOps, applied, delivered>>

\* The 100 ms timer fires: the total is tested and the INSERT INTO orders is
\* issued with the total accumulated so far.
CITimer(r) ==
  /\ up
  /\ ci[r].pc = "waiting"
  /\ IF ci[r].totalAmount = 0
     THEN /\ ci' = [ci EXCEPT ![r] =
                      Collect([Respond(@, "No valid items found") EXCEPT !.pc = "done"])]
          /\ last' = Sent(ci[r], "No valid items found")
          /\ up' = ~Answered(ci[r])
     ELSE /\ ci' = [ci EXCEPT ![r] = [@ EXCEPT !.pc = "insertOrder",
                                              !.orderTotal = ci[r].totalAmount]]
          /\ UNCHANGED <<up, last>>
  /\ UNCHANGED auth
  /\ UNCHANGED aside
  /\ UNCHANGED <<tables, gateway, cf, wh, adminOps, applied, hist, delivered>>

\* INSERT INTO orders and its callback, which maps orderItems to their inserts.
CIInsertOrder(r) ==
  /\ up
  /\ ci[r].pc = "insertOrder"
  /\ orders' = Append(orders, [user_id |-> ci[r].user, total_amount |-> ci[r].orderTotal,
                               status |-> "pending", payment_status |-> "pending"])
  /\ ci' = [ci EXCEPT ![r] = [@ EXCEPT !.pc = "insertItems", !.orderId = Len(orders) + 1,
                                       !.toInsert = ci[r].orderItems]]
  /\ hist' = Append(hist, NewHist(ci[r], CatalogTotal(ci[r].cart), CartResolves(ci[r].cart)))
  /\ UNCHANGED auth
  /\ UNCHANGED aside
  /\ UNCHANGED <<shop_products, pets, order_items, payments, gateway, cf, wh, up,
                 adminOps, applied, delivered, last>>

\* One INSERT INTO order_items; after the last one Promise.all resolves and
\* stripe.paymentIntents.create is called.
CIInsertItem(r) ==
  /\ up
  /\ ci[r].pc = "insertItems"
  /\ IF ci[r].toInsert = <<>>
     THEN /\ ci' = [ci EXCEPT ![r] = [@ EXCEPT !.pc = "createIntent"]]
          /\ UNCHANGED <<order_items, applied>>
     ELSE /\ order_items' = Append(order_items,
                               [order_id |-> ci[r].orderId,
                                item_type |-> Head(ci[r].toInsert).type,
                                item_id |-> Head(ci[r].toInsert).id,
                                quantity |-> Head(ci[r].toInsert).quantity,
                                price |-> Head(ci[r].toInsert).price])
          /\ applied' = Append(applied, 0)
          /\ ci' = [ci EXCEPT ![r] = [@ EXCEPT !.toInsert = Tail(@)]]
  /\ UNCHANGED auth
  /\ UNCHANGED aside
  /\ UNCHANGED <<shop_products, pets, orders, payments, gateway, cf, wh, up, adminOps,
                 hist, delivered, last>>

\* The row of INSERT INTO payments (order_id, stripe_payment_intent_id, amount,
\* status).
PaymentRow(o, i, amount) ==
  [order_id |-> o, stripe_payment_intent_id |-> i, amount |-> amount, status |-> "pending"]

\* stripe.paymentIntents.create resolves: the payment INSERT is issued and the
\* success response is sent.  When the request was answered before, sending
\* throws, so does the catch handler, and the process exits on the unhandled
\* rejection: the INSERT handed to sqlite runs before the exit or not at all.
CIIntentCreated(r) ==
  /\ up
  /\ ci[r].pc = "createIntent"
  /\ gateway' = Append(gateway, [status |-> "requires_payment_method",
                                 order |-> ci[r].orderId])
  /\ delivered' = Append(delivered, 0)
  /\ IF Answered(ci[r])
     THEN /\ \E ran \in BOOLEAN :
               payments' = IF ran THEN Append(payments,
                                              PaymentRow(ci[r].orderId, Len(gateway) + 1,
                                                         ci[r].totalAmount))
                           ELSE payments
          /\ ci' = [ci EXCEPT ![r] = Collect([@ EXCEPT !.pc = "done"])]
          /\ up' = FALSE
          /\ UNCHANGED <<hist, last>>
     ELSE /\ ci' = [ci EXCEPT ![r] = [@ EXCEPT !.resp = "created",
                                              !.pc = "insertPayment",
                                              !.intent = Len(gateway) + 1,
                                              !.payAmount = ci[r].totalAmount]]
          /\ hist' = Answer(ci[r].orderId, Respond(ci[r], "created"))
          /\ last' = "created"
          /\ UNCHANGED <<payments, up>>
  /\ UNCHANGED auth
  /\ UNCHANGED aside
  /\ UNCHANGED <<shop_products, pets, orders, order_items, cf, wh, adminOps, applied>>

\* The failure branch written to record the payment all the same.
CIIntentFailedRecorded(r) ==
  /\ up
  /\ ci[r].pc = "createIntent"
  /\ ci' = [ci EXCEPT ![r] =
              Collect([Respond(@, "Error creating payment intent") EXCEPT !.pc = "done"])]
  /\ hist' = Answer(ci[r].orderId, Respond(ci[r], "Error creating payment intent"))
  /\ last' = Sent(ci[r], "Error creating payment intent")
  /\ up' = ~Answered(ci[r])
  /\ payments' = Append(payments, PaymentRow(ci[r].orderId, 0, ci[r].totalAmount))
  /\ UNCHANGED auth
  /\ UNCHANGED aside
  /\ UNCHANGED <<shop_products, pets, orders, order_items, gateway, cf, wh, adminOps,
                 applied, delivered>>

\* stripe.paymentIntents.create rejects.
CIIntentFailed(r) ==
  /\ up
  /\ ci[r].pc = "createIntent"
  /\ ci' = [ci EXCEPT ![r] =
              Collect([Respond(@, "Error creating payment intent") EXCEPT !.pc = "done"])]
  /\ hist' = Answer(ci[r].orderId, Respond(ci[r], "Error creating payment intent"))
  /\ last' = Sent(ci[r], "Error creating payment intent")
  /\ up' = ~Answered(ci[r])
  /\ UNCHANGED auth
  /\ UNCHANGED aside
  /\ UNCHANGED <<tables, gateway, cf, wh, adminOps, applied, delivered>>

\* INSERT INTO payments; its callback only logs.
CIInsertPayment(r) ==
  /\ up
  /\ ci[r].pc = "insertPayment"
  /\ payments' = Append(payments, PaymentRow(ci[r].orderId, ci[r].intent, ci[r].payAmount))
  /\ ci' = [ci EXCEPT ![r] = Collect([@ EXCEPT !.pc = "done"])]
  /\ UNCHANGED auth
  /\ UNCHANGED aside
  /\ UNCHANGED <<shop_products, pets, orders, order_items, gateway, cf, wh, up,
                 adminOps, applied, hist, delivered, last>>

\* ------------------------------------------------------- Stripe gateway
\* The customer pays: the intent settles as succeeded.
GatewaySucceed(i) ==
  /\ i \in DOMAIN gateway
  /\ gateway[i].status = "requires_payment_method"
  /\ gateway' = [gateway EXCEPT ![i].status = "succeeded"]
  /\ UNCHANGED auth
  /\ UNCHANGED aside
  /\ UNCHANGED <<tables, ci, cf, wh, up, adminOps, applied, hist, delivered, last>>

\* ------------------------------------------------------- POST /confirm
\* express-validator chain of confirm
ValidConfirmBody(o, i) == o >= 1 /\ i # 0

ConfirmOK == "Payment confirmed successfully"

\* stripe.paymentIntents.retrieve(paymentIntentId).status
RetrieveStatus(i) == IF i \in DOMAIN gateway THEN gateway[i].status ELSE "no such intent"

\* A confirm request that has not been answered yet.
Unanswered(req) == req.pc \in {"arrived", "getOrder", "updateOrder"}

\* A confirm request reaches the server.  It names an order of the store and
\* an intent of the gateway (its own or another one).
CFArrive(c, u, o, i) ==
  /\ AcceptsBeside
  /\ cf[c].pc = "idle"
  /\ \A q \in 1..(c - 1) : cf[q].pc # "idle"
  /\ o \in DOMAIN orders
  /\ i \in DOMAIN gateway
  /\ cf' = [cf EXCEPT ![c] = [@ EXCEPT !.pc = "arrived", !.user = u, !.order = o,
                                       !.intent = i,
                                       !.sequential = hist[o].confirmedBy # 0]]
  /\ hist' = IF \E q \in 1..MaxConfirm : cf[q].order = o /\ Unanswered(cf[q])
             THEN [hist EXCEPT ![o].overlap = TRUE] ELSE hist
  /\ UNCHANGED auth
  /\ UNCHANGED aside
  /\ UNCHANGED <<tables, gateway, ci, wh, up, adminOps, applied, delivered, last>>

\* IntentCheck that trusts the client: the status of the intent is not tested.
IntentCheckTrusting(o, i) ==
  IF ~ValidConfirmBody(o, i) THEN "Validation failed"
  ELSE IF RetrieveStatus(i) = "no such intent" THEN "Server error"
  ELSE "none"

\* What the handler answers before it looks at the order; "none" lets it go on.
IntentCheck(o, i) ==
  IF ~ValidConfirmBody(o, i) THEN "Validation failed"
  ELSE IF RetrieveStatus(i) = "no such intent" THEN "Server error"
  ELSE IF RetrieveStatus(i) # "succeeded" THEN "Payment not completed"
  ELSE "none"

\* The handler up to the db.get: validation and the intent check.
CFStart(c) ==
  /\ up
  /\ cf[c].pc = "arrived"
  /\ LET res == IntentCheck(cf[c].order, cf[c].intent)
     IN IF res # "none"
        THEN /\ cf' = [cf EXCEPT ![c] = DoneConfirm]
             /\ last' = res
        ELSE /\ cf' = [cf EXCEPT ![c] = [@ EXCEPT !.pc = "getOrder"]]
             /\ last' = last
  /\ UNCHANGED auth
  /\ UNCHANGED aside
  /\ UNCHANGED <<tables, gateway, ci, wh, up, adminOps, applied, hist, delivered>>

\* The order lookup without the user_id condition.
GetOrderAnyUser(o, u) == IF o \in DOMAIN orders THEN orders[o] ELSE NoRow

\* SELECT id, user_id, status FROM orders WHERE id = ? AND user_id = ?
GetOrder(o, u) ==
  IF o \in DOMAIN orders /\ orders[o].user_id = u THEN orders[o] ELSE NoRow

\* OrderCheck without the test of the order's status.
OrderCheckAnyStatus(order) == IF order = NoRow THEN "Order not found" ELSE "none"

\* What the callback of the order lookup answers; "none" lets the update run.
OrderCheck(order) ==
  IF order = NoRow THEN "Order not found"
  ELSE IF order.status # "pending" THEN "Order already processed"
  ELSE "none"

CFGetOrder(c) ==
  /\ up
  /\ cf[c].pc = "getOrder"
  /\ LET res == OrderCheck(GetOrder(cf[c].order, cf[c].user))
     IN IF res # "none"
        THEN /\ cf' = [cf EXCEPT ![c] = DoneConfirm]
             /\ last' = res
        ELSE /\ cf' = [cf EXCEPT ![c] = [@ EXCEPT !.pc = "updateOrder"]]
             /\ last' = last
  /\ UNCHANGED auth
  /\ UNCHANGED aside
  /\ UNCHANGED <<tables, gateway, ci, wh, up, adminOps, applied, hist, delivered>>

\* The order update written as a toggle: a confirmed order goes back to pending.
ConfirmOrderToggle(row) ==
  IF row.status = "confirmed"
  THEN [row EXCEPT !.status = "pending", !.payment_status = "pending"]
  ELSE [row EXCEPT !.status = "confirmed", !.payment_status = "paid"]

\* SET status = 'confirmed', payment_status = 'paid'
ConfirmOrder(row) == [row EXCEPT !.status = "confirmed", !.payment_status = "paid"]

\* UPDATE orders SET status = 'confirmed', payment_status = 'paid' WHERE id = ?
\* and its callback: the payment update and the order_items select are issued,
\* then the success response is sent.
CFUpdateOrder(c) ==
  /\ up
  /\ cf[c].pc = "updateOrder"
  /\ orders' = [orders EXCEPT ![cf[c].order] = ConfirmOrder(@)]
  /\ cf' = [cf EXCEPT ![c] = [@ EXCEPT !.pc = "effects", !.payUpdate = TRUE,
                                       !.select = TRUE]]
  /\ hist' = [hist EXCEPT ![cf[c].order].confirmedBy = IF @ = 0 THEN cf[c].intent ELSE @]
  /\ last' = ConfirmOK
  /\ UNCHANGED auth
  /\ UNCHANGED aside
  /\ UNCHANGED <<shop_products, pets, order_items, payments, gateway, ci, wh, up,
                 adminOps, applied, delivered>>

\* A confirm request with no statement left to run is finished.
Settle(req) ==
  IF req.pc = "effects" /\ ~req.payUpdate /\ ~req.select /\ req.items = {}
  THEN DoneConfirm ELSE req

\* UPDATE payments SET status = 'completed', ... WHERE order_id = ? AND
\* stripe_payment_intent_id = ?
CompletePayment(table, o, i) ==
  [k \in DOMAIN table |->
     IF table[k].order_id = o /\ table[k].stripe_payment_intent_id = i
     THEN [table[k] EXCEPT !.status = "completed"] ELSE table[k]]

CFUpdatePayment(c) ==
  /\ up
  /\ cf[c].pc = "effects"
  /\ cf[c].payUpdate
  /\ payments' = CompletePayment(payments, cf[c].order, cf[c].intent)
  /\ cf' = [cf EXCEPT ![c] = Settle([@ EXCEPT !.payUpdate = FALSE])]
  /\ UNCHANGED auth
  /\ UNCHANGED aside
  /\ UNCHANGED <<shop_products, pets, orders, order_items, gateway, ci, wh, up,
                 adminOps, applied, hist, delivered, last>>

\* SELECT item_type, item_id, quantity FROM order_items WHERE order_id = ?
ItemsOf(o) == {k \in DOMAIN order_items : order_items[k].order_id = o}

\* The select and its callback, which issues one update per row.
CFSelectItems(c) ==
  /\ up
  /\ cf[c].pc = "effects"
  /\ cf[c].select
  /\ cf' = [cf EXCEPT ![c] = Settle([@ EXCEPT !.select = FALSE,
                                              !.items = ItemsOf(cf[c].order)])]
  /\ UNCHANGED auth
  /\ UNCHANGED aside
  /\ UNCHANGED <<tables, gateway, ci, wh, up, adminOps, applied, hist, delivered, last>>

\* The decrement written for one unit whatever the quantity of the item.
DecrementStockByOne(table, id, quantity) ==
  [p \in DOMAIN table |->
     IF p = id THEN [table[p] EXCEPT !.stock_quantity = @ - 1] ELSE table[p]]

\* UPDATE shop_products SET stock_quantity = stock_quantity - ? WHERE id = ?
DecrementStock(table, id, quantity) ==
  [p \in DOMAIN table |->
     IF p = id THEN [table[p] EXCEPT !.stock_quantity = @ - quantity] ELSE table[p]]

\* UPDATE pets SET is_available = 0 WHERE id = ?
MarkUnavailable(table, id) ==
  [p \in DOMAIN table |->
     IF p = id THEN [table[p] EXCEPT !.is_available = FALSE] ELSE table[p]]

\* The update issued for order_items row k.
CFApplyItem(c, k) ==
  /\ up
  /\ cf[c].pc = "effects"
  /\ k \in cf[c].items
  /\ IF order_items[k].item_type = "product"
     THEN /\ shop_products' = DecrementStock(shop_products, order_items[k].item_id,
                                             order_items[k].quantity)
          /\ pets' = pets
     ELSE /\ pets' = MarkUnavailable(pets, order_items[k].item_id)
          /\ shop_products' = shop_products
  /\ applied' = [applied EXCEPT ![k] = @ + 1]
  /\ cf' = [cf EXCEPT ![c] = Settle([@ EXCEPT !.items = @ \ {k}])]
  /\ UNCHANGED auth
  /\ UNCHANGED aside
  /\ UNCHANGED <<orders, order_items, payments, gateway, ci, wh, up, adminOps, hist,
                 delivered, last>>

\* ------------------------------------------------------- POST /webhook
Succeeded == "payment_intent.succeeded"
Failed == "payment_intent.payment_failed"
Created == "payment_intent.created"
EventTypes == {Created, Succeeded, Failed}

\* Events Stripe has emitted for intent i.  A payment attempt may have failed
\* at any time since the intent was created.
Emitted(i) ==
  IF i \notin DOMAIN gateway THEN {}
  ELSE {Created, Failed}
         \cup (IF gateway[i].status = "succeeded" THEN {Succeeded} ELSE {})

\* app.use(express.json(...)) of server.js: the body of an application/json
\* request is read and replaced by the parsed object.
JsonBodyParser(body) == IF body = "raw" THEN "parsed" ELSE body

\* express.raw({type: 'application/json'}) of the route: it hands on the bytes
\* of a body nobody has read yet and skips a body that is already parsed.
RawBodyParser(body) == body

\* The body the handler gets for an application/json request that came
\* through the middleware chain of server.js.
ServerChain(body) == RawBodyParser(JsonBodyParser(body))

\* The webhook requests sent: deliveries by Stripe, whose body reaches the
\* handler as the raw bytes (the router on its own) or through the chain of
\* server.js, and forged success events.
Deliveries ==
  [body : {"raw"}, sig : {"valid"}, type : EventTypes]
    \cup [body : {ServerChain("raw")}, sig : {"valid"}, type : {Succeeded}]
    \cup [body : {"raw"}, sig : {"invalid"}, type : {Succeeded}]

\* A webhook request reaches the router.  A request signed by Stripe carries
\* an event Stripe emitted.
WHArrive(w, body, sig, type, i) ==
  /\ AcceptsBeside
  /\ wh[w].pc = "idle"
  /\ \A q \in 1..(w - 1) : wh[q].pc # "idle"
  /\ i \in DOMAIN gateway
  /\ sig = "valid" => type \in Emitted(i)
  /\ wh' = [wh EXCEPT ![w] = [pc |-> "arrived", body |-> body, sig |-> sig,
                              type |-> type, intent |-> i]]
  /\ UNCHANGED auth
  /\ UNCHANGED aside
  /\ UNCHANGED <<tables, gateway, ci, cf, up, adminOps, applied, hist, delivered, last>>

\* constructEvent that returns the event whatever the signature.
ConstructEventUnverified(body, sig) == body \in {"raw", "parsed"}

\* stripe.webhooks.constructEvent(req.body, sig, secret) returns the event: the
\* signature is computed over the raw bytes of the body.
ConstructEvent(body, sig) == body = "raw" /\ sig = "valid"

\* The status the switch writes for an event type; "none" for the default case.
EventStatus(type) ==
  IF type = Succeeded THEN "completed" ELSE IF type = Failed THEN "failed" ELSE "none"

\* The whole handler: verification, the switch (which issues the update) and
\* the response.
WHHandle(w) ==
  /\ up
  /\ wh[w].pc = "arrived"
  /\ IF ~ConstructEvent(wh[w].body, wh[w].sig)
     THEN /\ wh' = [wh EXCEPT ![w] = DoneWebhook]
          /\ last' = "Webhook Error"
     ELSE /\ wh' = [wh EXCEPT ![w] = IF EventStatus(wh[w].type) = "none" THEN DoneWebhook
                                     ELSE [@ EXCEPT !.pc = "update"]]
          /\ last' = "received"
  /\ UNCHANGED auth
  /\ UNCHANGED aside
  /\ UNCHANGED <<tables, gateway, ci, cf, up, adminOps, applied, hist, delivered>>

\* The update written as a toggle: a row that has the status already goes back
\* to pending.
SetPaymentStatusToggle(table, i, status) ==
  [k \in DOMAIN table |->
     IF table[k].stripe_payment_intent_id = i
     THEN [table[k] EXCEPT !.status = IF @ = status THEN "pending" ELSE status]
     ELSE table[k]]

\* UPDATE payments SET status = ? WHERE stripe_payment_intent_id = ?
SetPaymentStatus(table, i, status) ==
  [k \in DOMAIN table |->
     IF table[k].stripe_payment_intent_id = i
     THEN [table[k] EXCEPT !.status = status] ELSE table[k]]

WHUpdate(w) ==
  /\ up
  /\ wh[w].pc = "update"
  /\ payments' = SetPaymentStatus(payments, wh[w].intent, EventStatus(wh[w].type))
  /\ delivered' = IF wh[w].type = Succeeded /\ wh[w].intent \in DOMAIN delivered
                  THEN [delivered EXCEPT ![wh[w].intent] = @ + 1] ELSE delivered
  /\ wh' = [wh EXCEPT ![w] = DoneWebhook]
  /\ UNCHANGED auth
  /\ UNCHANGED aside
  /\ UNCHANGED <<shop_products, pets, orders, order_items, gateway, ci, cf, up,
                 adminOps, applied, hist, last>>

\* ------------------------------------------- PUT /api/shop/products/:id
\* The request bodies the admin sends: one field each.
AdminUpdates ==
  ({"price"} \X (Prices \ {5})) \cup ({"stockQuantity"} \X {0, MaxQty})
     \cup ({"isAvailable"} \X {0})

\* The update statement built from the body.
UpdateProduct(row, field, value) ==
  CASE field = "price" -> [row EXCEPT !.price = value]
    [] field = "stockQuantity" -> [row EXCEPT !.stock_quantity = value]
    [] field = "isAvailable" -> [row EXCEPT !.is_available = (value # 0)]

AdminUpdateProduct(p, field, value) ==
  /\ up
  /\ adminOps < MaxAdminOps
  /\ Started + adminOps < MaxRequests
  /\ p \in DOMAIN shop_products
  /\ adminOps' = adminOps + 1
  /\ shop_products' = [shop_products EXCEPT ![p] = UpdateProduct(@, field, value)]
  /\ last' = "Product updated successfully"
  /\ UNCHANGED auth
  /\ UNCHANGED aside
  /\ UNCHANGED <<pets, orders, order_items, payments, gateway, ci, cf, wh, up, applied,
                 hist, delivered>>

\* ------------------------------------------------------- PUT /api/pets/:id
\* The request bodies the admin sends for a pet: isAvailable false or true.
PetUpdates == {"isAvailable"} \X {0, 1}

\* The update statement built from the body.
UpdatePet(row, field, value) ==
  CASE field = "price" -> [row EXCEPT !.price = value]
    [] field = "isAvailable" -> [row EXCEPT !.is_available = (value # 0)]

AdminUpdatePet(p, field, value) ==
  /\ up
  /\ adminOps < MaxAdminOps
  /\ Started + adminOps < MaxRequests
  /\ p \in DOMAIN pets
  /\ adminOps' = adminOps + 1
  /\ pets' = [pets EXCEPT ![p] = UpdatePet(@, field, value)]
  /\ last' = "Pet updated successfully"
  /\ UNCHANGED auth
  /\ UNCHANGED aside
  /\ UNCHANGED <<shop_products, orders, order_items, payments, gateway, ci, cf, wh, up,
                 applied, hist, delivered>>

\* ------------------------------------------------------------ the process
\* The node process dies while requests are in flight; the statements it had
\* not yet run are lost.
Crash ==
  /\ up
  /\ InFlight > 0
  /\ up' = FALSE
  /\ UNCHANGED auth
  /\ UNCHANGED aside
  /\ UNCHANGED <<tables, gateway, ci, cf, wh, adminOps, applied, hist, delivered, last>>

\* The orders the store can hold: one per create-intent request, and the one
\* that is there when the server starts with a store in use.
MaxOrders == MaxCreate + 1

Next ==
  \/ \E r \in 1..MaxCreate, u \in Buyers, cart \in Carts : CIStart(r, u, cart)
  \/ \E r \in 1..MaxCreate, k \in 1..MaxCart : CILookup(r, k)
  \/ \E r \in 1..MaxCreate : CITimer(r)
  \/ \E r \in 1..MaxCreate : CIInsertOrder(r)
  \/ \E r \in 1..MaxCreate : CIInsertItem(r)
  \/ \E r \in 1..MaxCreate : CIIntentCreated(r)
  \/ \E r \in 1..MaxCreate : CIIntentFailed(r)
  \/ \E r \in 1..MaxCreate : CIInsertPayment(r)
  \/ \E i \in 1..MaxOrders : GatewaySucceed(i)
  \/ \E c \in 1..MaxConfirm, u \in Users, o \in 1..MaxOrders, i \in 1..MaxOrders :
       CFArrive(c, u, o, i)
  \/ \E c \in 1..MaxConfirm : CFStart(c)
  \/ \E c \in 1..MaxConfirm : CFGetOrder(c)
  \/ \E c \in 1..MaxConfirm : CFUpdateOrder(c)
  \/ \E c \in 1..MaxConfirm : CFUpdatePayment(c)
  \/ \E c \in 1..MaxConfirm : CFSelectItems(c)
  \/ \E c \in 1..MaxConfirm, k \in 1..(MaxCart * MaxOrders) : CFApplyItem(c, k)
  \/ \E w \in 1..MaxWebhook, d \in Deliveries, i \in 1..MaxOrders :
       WHArrive(w, d.body, d.sig, d.type, i)
  \/ \E w \in 1..MaxWebhook : WHHandle(w)
  \/ \E w \in 1..MaxWebhook : WHUpdate(w)
  \/ \E p \in ProductIds, f \in AdminUpdates : AdminUpdateProduct(p, f[1], f[2])
  \/ \E p \in PetIds, f \in PetUpdates : AdminUpdatePet(p, f[1], f[2])
  \/ Crash

Spec == Init /\ [][Next]_vars

\* The cart with the pet and a product.
PetCart == <<Item("pet", 1, NoQty, NoPrice), Item("product", 1, 1, NoPrice)>>

\* The server starts with a store in use: user 1's create-intent for PetCart
\* has run to its end before, so order 1 is pending with its items, its intent
\* and its payments row, and nothing of it has been paid or confirmed.
PetInit ==
  /\ shop_products = [p \in ProductIds |->
                        [price |-> 5, stock_quantity |-> InitStock, is_available |-> TRUE]]
  /\ pets = [p \in PetIds |-> [price |-> 3, is_available |-> TRUE]]
  /\ orders = <<[user_id |-> 1, total_amount |-> 8, status |-> "pending",
                 payment_status |-> "pending"]>>
  /\ order_items = <<[order_id |-> 1, item_type |-> "pet", item_id |-> 1,
                      quantity |-> 1, price |-> 3],
                     [order_id |-> 1, item_type |-> "product", item_id |-> 1,
                      quantity |-> 1, price |-> 5]>>
  /\ payments = <<PaymentRow(1, 1, 8)>>
  /\ gateway = <<[status |-> "requires_payment_method", order |-> 1]>>
  /\ ci = [r \in 1..MaxCreate |-> IdleCreate]
  /\ cf = [c \in 1..MaxConfirm |-> IdleConfirm]
  /\ wh = [w \in 1..MaxWebhook |-> IdleWebhook]
  /\ up = TRUE
  /\ adminOps = 0
  /\ applied = <<0, 0>>
  /\ hist = <<[rejected |-> FALSE, resolved |-> TRUE, catalogTotal |-> 8,
               answer |-> "created", confirmedBy |-> 0, overlap |-> FALSE]>>
  /\ delivered = <<0>>
  /\ last = "none"
  /\ users = [u \in Users |->
                [id |-> u, role |-> IF u = AdminId THEN "admin" ELSE "user",
                 is_active |-> TRUE]]
  /\ rq = [q \in 1..MaxAuthReq |-> IdleRequest]
  /\ routed = NotRouted
  /\ accounts = SeedAccounts
  /\ rg = [g \in 1..MaxRegister |-> IdleRegister]

\* The checkout requests of the buyer for PetCart, with no webhook delivery
\* and no admin request beside them.
PetNext ==
  \/ \E r \in 1..MaxCreate, u \in Buyers : CIStart(r, u, PetCart)
  \/ \E r \in 1..MaxCreate, k \in 1..MaxCart : CILookup(r, k)
  \/ \E r \in 1..MaxCreate : CITimer(r)
  \/ \E r \in 1..MaxCreate : CIInsertOrder(r)
  \/ \E r \in 1..MaxCreate : CIInsertItem(r)
  \/ \E r \in 1..MaxCreate : CIIntentCreated(r)
  \/ \E r \in 1..MaxCreate : CIIntentFailed(r)
  \/ \E r \in 1..MaxCreate : CIInsertPayment(r)
  \/ \E i \in 1..MaxOrders : GatewaySucceed(i)
  \/ \E c \in 1..MaxConfirm, u \in Buyers, o \in 1..MaxOrders, i \in 1..MaxOrders :
       CFArrive(c, u, o, i)
  \/ \E c \in 1..MaxConfirm : CFStart(c)
  \/ \E c \in 1..MaxConfirm : CFGetOrder(c)
  \/ \E c \in 1..MaxConfirm : CFUpdateOrder(c)
  \/ \E c \in 1..MaxConfirm : CFUpdatePayment(c)
  \/ \E c \in 1..MaxConfirm : CFSelectItems(c)
  \/ \E c \in 1..MaxConfirm, k \in 1..(MaxCart * MaxOrders) : CFApplyItem(c, k)

PetSpec == PetInit /\ [][PetNext]_vars

\* ------------------------------------- middleware/auth.js: protect, authorize
\* The variables of the checkout that the routes below leave alone.
checkout == <<orders, order_items, payments, gateway, ci, cf, wh, up, adminOps,
              applied, hist, delivered, last>>

NotAuthorized == "Not authorized to access this route"
Inactive == "User not found or inactive"
Forbidden == "User role is not authorized to access this route"
OwnAccount == "Cannot delete your own account"
NotOwnProfile == "Not authorized to update this profile"
AdminsOnly == "Only administrators can modify user roles and status"

\* Routes mounted with [protect, authorize('admin')] and with protect alone.
AdminRoutes == {"updateProduct", "updatePet", "deleteUser"}
ProtectedRoutes == AdminRoutes \cup {"me", "updateUser"}

\* Bearer tokens sent: none, tokens signed by the server for the users and for
\* an id that is not in the table, and a token for the admin that does not
\* verify (forged or expired).
Tokens ==
  {NoToken} \cup [id : 1..(NumUsers + 1), verifies : {TRUE}]
            \cup [id : {AdminId}, verifies : {FALSE}]

\* The requests sent to the routes: the target is the id in the path.
AuthRequests ==
  [token : Tokens, route : ProtectedRoutes \ {"deleteUser", "updateUser"}, target : {1}]
    \cup [token : Tokens, route : {"deleteUser", "updateUser"}, target : Users]

\* jwt.verify(token, secret) returns the payload.
JwtVerify(token) == token # NoToken /\ token.verifies

\* A request reaches a route behind protect.
AuthArrive(q, token, route, target) ==
  /\ up
  /\ rq[q].pc = "idle"
  /\ \A p \in 1..(q - 1) : rq[p].pc # "idle"
  /\ rq' = [rq EXCEPT ![q] =
              [pc |-> "protect", token |-> token, route |-> route, target |-> target,
               user |-> NoRow, resp |-> "none",
               stale |-> /\ token # NoToken
                         /\ token.id \in DOMAIN users
                         /\ ~users[token.id].is_active]]
  /\ UNCHANGED aside
  /\ UNCHANGED <<tables, users, checkout>>

\* The answer that ends a request.
Finish(req, msg) == [req EXCEPT !.pc = "done", !.resp = msg]

\* protect up to the db.get: the header is read and the token verified.
Protect(q) ==
  /\ up
  /\ rq[q].pc = "protect"
  /\ rq' = [rq EXCEPT ![q] = IF JwtVerify(rq[q].token) THEN [@ EXCEPT !.pc = "get"]
                              ELSE Finish(@, NotAuthorized)]
  /\ UNCHANGED aside
  /\ UNCHANGED <<tables, users, checkout>>

\* SELECT id, ..., role, is_active FROM users WHERE id = ? runs.
ProtectGet(q) ==
  /\ up
  /\ rq[q].pc = "get"
  /\ rq' = [rq EXCEPT ![q] = [@ EXCEPT !.pc = "callback",
                                       !.user = GetRow(users, rq[q].token.id)]]
  /\ UNCHANGED aside
  /\ UNCHANGED <<tables, users, checkout>>

\* The test of the row without is_active.
UserCheckExists(row) == IF row = NoRow THEN Inactive ELSE "none"

\* if (!user || !user.is_active) of protect; "none" calls next().
UserCheck(row) == IF row = NoRow \/ ~row.is_active THEN Inactive ELSE "none"

\* authorize that lets every role through.
AuthorizeAny(roles, user) == "none"

\* authorize(...roles): "none" calls next().
Authorize(roles, user) == IF user.role \in roles THEN "none" ELSE Forbidden

\* What the route's handler answers before its first statement.
\* PUT /api/users/:id is sent with the body {isActive: false}.
HandlerEntry(route, user, target) ==
  IF route = "deleteUser" /\ user.id = target THEN OwnAccount
  ELSE IF route = "updateUser" /\ user.id # target /\ user.role # "admin" THEN NotOwnProfile
  ELSE IF route = "updateUser" /\ user.role # "admin" THEN AdminsOnly
  ELSE "none"

\* The callback of protect's db.get, and what next() runs in the same turn:
\* authorize on the admin routes and the handler up to its first statement.
ProtectCallback(q) ==
  /\ up
  /\ rq[q].pc = "callback"
  /\ LET req == rq[q]
         deny == IF UserCheck(req.user) # "none" THEN UserCheck(req.user)
                 ELSE IF req.route \in AdminRoutes /\ Authorize({"admin"}, req.user) # "none"
                   THEN Authorize({"admin"}, req.user)
                 ELSE HandlerEntry(req.route, req.user, req.target)
     IN rq' = [rq EXCEPT ![q] = IF deny # "none" THEN Finish(@, deny)
                                 ELSE [@ EXCEPT !.pc = "handler"]]
  /\ UNCHANGED aside
  /\ UNCHANGED <<tables, users, checkout>>

\* UPDATE users SET is_active = 0 WHERE id = ?
Deactivate(table, id) ==
  [u \in DOMAIN table |-> IF u = id THEN [table[u] EXCEPT !.is_active = FALSE] ELSE table[u]]

\* UPDATE users SET is_active = ?, updated_at = CURRENT_TIMESTAMP WHERE id = ?
UpdateUser(table, id, field, value) ==
  [u \in DOMAIN table |->
     IF u = id /\ field = "isActive" THEN [table[u] EXCEPT !.is_active = (value # 0)]
     ELSE table[u]]

\* The statements of the handler and its answer.
Handler(q) ==
  /\ up
  /\ rq[q].pc = "handler"
  /\ LET req == rq[q]
     IN CASE req.route = "updateProduct" ->
               /\ shop_products' = [shop_products EXCEPT ![req.target] =
                                      UpdateProduct(@, "stockQuantity", 0)]
               /\ rq' = [rq EXCEPT ![q] = Finish(@, "Product updated successfully")]
               /\ UNCHANGED <<pets, users>>
          [] req.route = "updatePet" ->
               /\ pets' = [pets EXCEPT ![req.target] = UpdatePet(@, "isAvailable", 0)]
               /\ rq' = [rq EXCEPT ![q] = Finish(@, "Pet updated successfully")]
               /\ UNCHANGED <<shop_products, users>>
          [] req.route = "deleteUser" ->
               /\ users' = Deactivate(users, req.target)
               /\ rq' = [rq EXCEPT ![q] = Finish(@, "User deactivated successfully")]
               /\ UNCHANGED <<shop_products, pets>>
          [] req.route = "updateUser" ->
               /\ users' = UpdateUser(users, req.target, "isActive", 0)
               /\ rq' = [rq EXCEPT ![q] = Finish(@, "User updated successfully")]
               /\ UNCHANGED <<shop_products, pets>>
          [] req.route = "me" ->
               /\ rq' = [rq EXCEPT ![q] = Finish(@, "me")]
               /\ UNCHANGED <<shop_products, pets, users>>
  /\ UNCHANGED aside
  /\ UNCHANGED <<orders, order_items, payments, checkout>>

AuthNext ==
  \/ \E q \in 1..MaxAuthReq, r \in AuthRequests : AuthArrive(q, r.token, r.route, r.target)
  \/ \E q \in 1..MaxAuthReq : Protect(q)
  \/ \E q \in 1..MaxAuthReq : ProtectGet(q)
  \/ \E q \in 1..MaxAuthReq : ProtectCallback(q)
  \/ \E q \in 1..MaxAuthReq : Handler(q)

AuthSpec == Init /\ [][AuthNext]_vars

\* ------------------------------------------------- express.Router dispatch
Route(m, p, h) == [method |-> m, path |-> p, handler |-> h]

\* routes/pets.js, in the order of its router.get / post / put / delete calls.
PetsRouter ==
  << Route("GET", <<>>, "getPets"),
     Route("GET", <<":id">>, "getPet"),
     Route("POST", <<"upload-image">>, "uploadPetImage"),
     Route("DELETE", <<"image", ":filename">>, "deletePetImage"),
     Route("POST", <<>>, "createPet"),
     Route("PUT", <<":id">>, "updatePet"),
     Route("DELETE", <<":id">>, "deletePet"),
     Route("GET", <<"featured">>, "getFeaturedPets") >>

\* routes/users.js, in the order of its calls.
UsersRouter ==
  << Route("GET", <<>>, "getUsers"),
     Route("GET", <<":id">>, "getUser"),
     Route("PUT", <<":id">>, "updateUser"),
     Route("DELETE", <<":id">>, "deleteUser"),
     Route("GET", <<"stats">>, "getUserStats"),
     Route("GET", <<":id", "orders">>, "getUserOrders") >>

\* The routers mounted on /api/pets and /api/users.
Routers == [pets |-> PetsRouter, users |-> UsersRouter]

\* A path segment of a route that is a parameter: it matches any segment.
IsParam(seg) == seg \in {":id", ":filename"}

\* The layer of a route matches the method and the path of the request.
Matches(route, method, path) ==
  /\ route.method = method
  /\ Len(route.path) = Len(path)
  /\ \A k \in DOMAIN path : IsParam(route.path[k]) \/ route.path[k] = path[k]

\* The handler the router runs: the one of the first route that matches (no
\* handler of these routers passes the request on with next()).
Dispatch(router, method, path) ==
  LET hits == {k \in DOMAIN router : Matches(router[k], method, path)}
  IN IF hits = {} THEN "notFound"
     ELSE router[CHOOSE k \in hits : \A j \in hits : k <= j].handler

Methods == {"GET", "POST", "PUT", "DELETE"}
Segments == {"1", "featured", "stats", "orders", "image", "upload-image"}

\* The paths requested below the mount point: up to two segments.
Paths == {<<>>} \cup {<<a>> : a \in Segments} \cup {<<a, b>> : a, b \in Segments}

\* A request is dispatched by the router it is mounted on.
Dispatched(name, method, path) ==
  /\ up
  /\ routed' = [router |-> name, method |-> method, path |-> path,
                handler |-> Dispatch(Routers[name], method, path)]
  /\ UNCHANGED <<tables, auth, checkout, accounts, rg>>

RouteNext ==
  \E name \in DOMAIN Routers, method \in Methods, path \in Paths :
    Dispatched(name, method, path)

RouteSpec == Init /\ [][RouteNext]_vars

\* ------------------------------------------- POST /api/auth/register
Exists == "User already exists with this email or username"
CreateError == "Error creating user"
Registered == "User registered successfully"

\* The usernames and emails sent: those of the last user of the store and new
\* ones.
RegNames == {NumUsers, NumUsers + 1}
RegEmails == {NumUsers, NumUsers + 1}

\* A register request with a valid body reaches the handler, which issues the
\* lookup.
RegArrive(g, username, email) ==
  /\ up
  /\ rg[g].pc = "idle"
  /\ \A p \in 1..(g - 1) : rg[p].pc # "idle"
  /\ rg' = [rg EXCEPT ![g] = [pc |-> "check", username |-> username, email |-> email,
                              resp |-> "none"]]
  /\ UNCHANGED <<tables, auth, checkout, routed, accounts>>

\* SELECT id FROM users WHERE email = ? OR username = ?
ExistingUser(table, username, email) ==
  \E k \in DOMAIN table : table[k].email = email \/ table[k].username = username

\* The callback of the lookup: 400 when a row was found, otherwise the
\* password is hashed and the INSERT issued.
RegCheck(g) ==
  /\ up
  /\ rg[g].pc = "check"
  /\ rg' = [rg EXCEPT ![g] =
              IF ExistingUser(accounts, rg[g].username, rg[g].email)
              THEN [@ EXCEPT !.pc = "done", !.resp = Exists]
              ELSE [@ EXCEPT !.pc = "insert"]]
  /\ UNCHANGED <<tables, auth, checkout, routed, accounts>>

\* A users table without the UNIQUE constraints.
NoConstraint(table, username, email) == FALSE

\* username VARCHAR(50) UNIQUE NOT NULL, email VARCHAR(100) UNIQUE NOT NULL:
\* the INSERT of a row with this username and email fails.
UniqueViolation(table, username, email) ==
  \E k \in DOMAIN table : table[k].username = username \/ table[k].email = email

\* INSERT INTO users (username, email, ...) runs, and its callback answers.
\* role and is_active take their defaults.
RegInsert(g) ==
  /\ up
  /\ rg[g].pc = "insert"
  /\ IF UniqueViolation(accounts, rg[g].username, rg[g].email)
     THEN /\ rg' = [rg EXCEPT ![g] = [@ EXCEPT !.pc = "done", !.resp = CreateError]]
          /\ UNCHANGED <<accounts, users>>
     ELSE /\ accounts' = Append(accounts, [username |-> rg[g].username,
                                           email |-> rg[g].email])
          /\ users' = Append(users, [id |-> Len(users) + 1, role |-> "user",
                                     is_active |-> TRUE])
          /\ rg' = [rg EXCEPT ![g] = [@ EXCEPT !.pc = "done", !.resp = Registered]]
  /\ UNCHANGED <<tables, rq, checkout, routed>>

RegisterNext ==
  \/ \E g \in 1..MaxRegister, n \in RegNames, e \in RegEmails : RegArrive(g, n, e)
  \/ \E g \in 1..MaxRegister : RegCheck(g)
  \/ \E g \in 1..MaxRegister : RegInsert(g)

RegisterSpec == Init /\ [][RegisterNext]_vars

\* ------------------------------------------------------------ properties
\* Order o is confirmed; every request has been answered and the server is up.
Confirmed(o) == orders[o].status = "confirmed"
Quiescent == up /\ InFlight = 0

\* C1: the total_amount of every order created from a cart whose items all
\* resolve equals the sum of catalog price x quantity over the whole cart at
\* the time the order is inserted.
C1_TotalIsCatalogTotal ==
  \A o \in DOMAIN orders :
    hist[o].resolved => orders[o].total_amount = hist[o].catalogTotal

\* C2: a request one of whose items was found missing, unavailable or short of
\* stock writes no order.
C2_NoOrderForRejectedCart ==
  \A o \in DOMAIN orders : ~hist[o].rejected

\* C3: of two checkouts open at the same time that together ask for more
\* units of a product than its stock, at most one is answered with success.
C3_OneCheckoutSucceeds ==
  \A o1, o2 \in DOMAIN orders :
    \A k1 \in ItemsOf(o1), k2 \in ItemsOf(o2) :
      ( /\ o1 # o2
        /\ adminOps = 0
        /\ ~Confirmed(o1) /\ ~Confirmed(o2)
        /\ order_items[k1].item_type = "product" /\ order_items[k2].item_type = "product"
        /\ order_items[k1].item_id = order_items[k2].item_id
        /\ order_items[k1].quantity + order_items[k2].quantity > InitStock )
      => ~(hist[o1].answer = "created" /\ hist[o2].answer = "created")

\* C4: the stock of a product is never negative.
C4_StockNeverNegative ==
  \A p \in DOMAIN shop_products : shop_products[p].stock_quantity >= 0

\* The confirm requests for an order came one after the other, the first
\* success with the order's own intent.
InSequence(o) ==
  /\ ~hist[o].overlap
  /\ hist[o].confirmedBy # 0
  /\ gateway[hist[o].confirmedBy].order = o

\* C5: a confirm request made by the owner with a succeeded intent after a
\* confirm of the same order was answered with success is answered 'Order
\* already processed' and no step of it changes a table; when the confirm
\* requests of an order came one after the other, the side effect of each of
\* its items is applied at most once, and exactly once when they are through.
C5_SecondConfirmStep ==
  \A c \in 1..MaxConfirm :
    (cf[c].sequential /\ cf[c].pc # "arrived" /\ cf'[c] # cf[c])
      => /\ tables' = tables
         /\ applied' = applied
         /\ cf[c].user = orders[cf[c].order].user_id
              => cf'[c] = DoneConfirm /\ last' = "Order already processed"

C5_AppliedOnce ==
  \A o \in DOMAIN orders :
    InSequence(o) =>
      \A k \in ItemsOf(o) :
        /\ applied[k] <= 1
        /\ (Quiescent => applied[k] = 1)

C5_SecondConfirmFails == [][C5_SecondConfirmStep]_vars /\ []C5_AppliedOnce

\* A second confirm in sequence has been refused and the items of the order
\* have been applied once.
C5_Witness ==
  /\ Quiescent
  /\ last = "Order already processed"
  /\ \E o \in DOMAIN orders :
       /\ InSequence(o)
       /\ \E k \in ItemsOf(o) : order_items[k].item_type = "product" /\ applied[k] = 1

\* C6: the side effect of an order item is applied at most once, and when no
\* request is in flight the items of a confirmed order are applied exactly once.
C6_SideEffectsOnce ==
  \A o \in DOMAIN orders :
    \A k \in ItemsOf(o) :
      /\ applied[k] <= 1
      /\ (Quiescent /\ Confirmed(o) /\ gateway[hist[o].confirmedBy].order = o
            => applied[k] = 1)

\* C7: an order is confirmed and paid exactly when the side effects of its
\* items are applied.
C7_ConfirmAtomic ==
  \A o \in DOMAIN orders :
    \A k \in ItemsOf(o) :
      (Confirmed(o) /\ orders[o].payment_status = "paid") <=> applied[k] >= 1

\* C8: once the payment_intent.succeeded event of an order's intent has been
\* handled and nothing is in flight, the order is confirmed and paid and the
\* side effects of its items are applied.
C8_WebhookConfirmsOrder ==
  \A i \in DOMAIN gateway :
    (Quiescent /\ delivered[i] >= 1)
      => /\ Confirmed(gateway[i].order)
         /\ orders[gateway[i].order].payment_status = "paid"
         /\ \A k \in ItemsOf(gateway[i].order) : applied[k] >= 1

\* The payments rows of intent i are completed.
Completed(table, i) ==
  \A k \in DOMAIN table :
    table[k].stripe_payment_intent_id = i => table[k].status = "completed"

\* C9: the update of a payment_intent.succeeded event leaves the payments rows
\* of its intent completed and changes no other table; run again on rows that
\* are completed it changes nothing at all.
C9_SucceededStep ==
  \A w \in 1..MaxWebhook :
    (wh[w].pc = "update" /\ wh[w].type = Succeeded /\ wh'[w] # wh[w])
      => /\ <<shop_products, pets, orders, order_items, applied>>'
              = <<shop_products, pets, orders, order_items, applied>>
         /\ Completed(payments', wh[w].intent)
         /\ Len(payments') = Len(payments)
         /\ (delivered[wh[w].intent] >= 1 /\ Completed(payments, wh[w].intent))
              => payments' = payments

C10_BadSignatureStep ==
  \A w \in 1..MaxWebhook :
    ( /\ wh[w].pc = "arrived"
      /\ wh[w].sig = "invalid" \/ wh[w].body = "parsed"
      /\ wh'[w] # wh[w] )
      => /\ wh'[w] = DoneWebhook
         /\ last' = "Webhook Error"
         /\ tables' = tables

C10_BadSignatureRejected == [][C10_BadSignatureStep]_vars

\* A forged success event for the intent of a pending payment was refused.
C10_Witness ==
  /\ last = "Webhook Error"
  /\ \E w \in 1..MaxWebhook : wh[w] = DoneWebhook
  /\ \E k \in DOMAIN payments : payments[k].status = "pending"

\* C11: a correctly signed payment_intent.succeeded request that came through
\* the middleware chain of the server is accepted by the handler (answered
\* 'received', its update of the payments rows issued).
C11_ChainStep ==
  \A w \in 1..MaxWebhook :
    ( /\ wh[w].pc = "arrived"
      /\ wh[w].body = ServerChain("raw")
      /\ wh[w].sig = "valid" /\ wh[w].type = Succeeded
      /\ wh'[w] # wh[w] )
      => /\ last' = "received"
         /\ wh'[w].pc = "update"

C11_SignedWebhookAccepted == [][C11_ChainStep]_vars

\* C12: a confirm request whose intent the gateway reports in a status other
\* than succeeded is answered 'Payment not completed' at once, and its step
\* changes no table and applies no side effect.
C12_NotSucceededStep ==
  \A c \in 1..MaxConfirm :
    ( /\ cf[c].pc = "arrived"
      /\ RetrieveStatus(cf[c].intent) \notin {"succeeded", "no such intent"}
      /\ cf'[c] # cf[c] )
      => /\ cf'[c] = DoneConfirm
         /\ last' = "Payment not completed"
         /\ tables' = tables
         /\ applied' = applied

C12_PaymentNotCompleted == [][C12_NotSucceededStep]_vars

\* A confirm of a pending order with an unsettled intent has been refused.
C12_Witness ==
  /\ last = "Payment not completed"
  /\ \E c \in 1..MaxConfirm : cf[c] = DoneConfirm
  /\ \E o \in DOMAIN orders : orders[o].status = "pending"
  /\ \E i \in DOMAIN gateway : gateway[i].status # "succeeded"

\* C13: no step changes the status of a payments row that is completed or
\* failed, and a pending row only becomes completed or failed.
C13_PaymentStep ==
  \A k \in DOMAIN payments :
    /\ payments[k].status \in {"completed", "failed"}
         => payments'[k].status = payments[k].status
    /\ payments'[k].status \in {"pending", "completed", "failed"}

C14_OrderStep ==
  \A o \in DOMAIN orders :
    /\ orders[o].status \in {"pending", "confirmed"}
    /\ orders[o].payment_status \in {"pending", "paid"}
    /\ orders[o].status = "confirmed" => orders'[o].status = "confirmed"
    /\ orders[o].payment_status = "paid" => orders'[o].payment_status = "paid"
    /\ orders'[o].status = "confirmed" <=> orders'[o].payment_status = "paid"

C14_OrderStatusTerminal == [][C14_OrderStep]_vars

\* A confirmed and paid order whose update ran a second time (two confirm
\* requests passed the status check).
C14_Witness ==
  \E o \in DOMAIN orders :
    /\ Confirmed(o) /\ orders[o].payment_status = "paid"
    /\ \E k \in ItemsOf(o) : applied[k] = 2

\* C15: every order of the store has order_items rows.
C15_OrderHasItems ==
  \A o \in DOMAIN orders : ItemsOf(o) # {}

\* Sum of price x quantity over the order_items rows of order o.
ItemsTotal(o) ==
  SumSeq([k \in DOMAIN order_items |->
            IF order_items[k].order_id = o
            THEN order_items[k].price * order_items[k].quantity ELSE 0])

\* C16: when no request is in flight, the total_amount of every order equals
\* the sum of price x quantity over its own order_items rows.
C16_TotalIsItemsTotal ==
  Quiescent => \A o \in DOMAIN orders : orders[o].total_amount = ItemsTotal(o)

\* C17: a pet that a confirmed order has marked unavailable is unavailable.
C17_SoldPetStaysUnavailable ==
  \A k \in DOMAIN order_items :
    (order_items[k].item_type = "pet" /\ applied[k] >= 1)
      => ~pets[order_items[k].item_id].is_available

\* C18: the statement a confirm runs for an order_items row takes the row's
\* quantity off the stock of the row's product, or makes the row's pet
\* unavailable, and changes no other product or pet and no other column; a
\* confirm that has read the rows of its order has run, or still has to run,
\* the statement of every one of them.
C18_ApplyStep ==
  \A k \in DOMAIN applied :
    applied'[k] # applied[k] =>
      LET it == order_items[k]
      IN IF it.item_type = "product"
         THEN /\ pets' = pets
              /\ \A p \in DOMAIN shop_products :
                    shop_products'[p] =
                      IF p = it.item_id
                      THEN [shop_products[p] EXCEPT
                              !.stock_quantity = shop_products[p].stock_quantity - it.quantity]
                      ELSE shop_products[p]
         ELSE /\ shop_products' = shop_products
              /\ \A p \in DOMAIN pets :
                    pets'[p] = IF p = it.item_id
                               THEN [pets[p] EXCEPT !.is_available = FALSE]
                               ELSE pets[p]

C18_EveryItem ==
  \A c \in 1..MaxConfirm :
    (cf[c].pc = "effects" /\ ~cf[c].select) =>
      /\ cf[c].items \subseteq ItemsOf(cf[c].order)
      /\ \A k \in ItemsOf(cf[c].order) \ cf[c].items : applied[k] >= 1

store == <<tables, users>>

\* C19: protect answers 401 and changes nothing for a request without a
\* token that verifies and for a request whose token names no user or a user
\* with is_active = 0; the row it tests is the one in the table when it looks;
\* a handler runs only for a verified token and an active user's row, never
\* for a request that arrived after its user was deactivated; and only a
\* running handler changes the store.
C19_ProtectStep ==
  /\ \A q \in 1..MaxAuthReq :
       /\ ( /\ rq[q].pc = "protect" /\ rq'[q] # rq[q]
            /\ (rq[q].token = NoToken \/ ~rq[q].token.verifies) )
            => /\ rq'[q].pc = "done" /\ rq'[q].resp = NotAuthorized
               /\ store' = store
       /\ (rq[q].pc = "get" /\ rq'[q] # rq[q])
            => rq'[q].user = IF rq[q].token.id \in DOMAIN users
                             THEN users[rq[q].token.id] ELSE NoRow
       /\ ( /\ rq[q].pc = "callback" /\ rq'[q] # rq[q]
            /\ (rq[q].user = NoRow \/ ~rq[q].user.is_active) )
            => /\ rq'[q].pc = "done" /\ rq'[q].resp = Inactive
               /\ store' = store
  /\ store' # store => \E q \in 1..MaxAuthReq : rq[q].pc = "handler" /\ rq'[q].pc = "done"

C19_HandlerAuthentic ==
  \A q \in 1..MaxAuthReq :
    /\ rq[q].pc = "handler"
         => /\ rq[q].token # NoToken /\ rq[q].token.verifies
            /\ rq[q].user # NoRow /\ rq[q].user.is_active
            /\ rq[q].user.id = rq[q].token.id
            /\ ~rq[q].stale
    /\ (rq[q].pc = "done" /\ rq[q].stale) => rq[q].resp \in {NotAuthorized, Inactive}

C19_ProtectGuards == [][C19_ProtectStep]_vars /\ []C19_HandlerAuthentic

\* A request made with a verified token of a user who had been deactivated was
\* answered 401.
C19_Witness ==
  \E q \in 1..MaxAuthReq :
    /\ rq[q].pc = "done" /\ rq[q].stale
    /\ rq[q].token.verifies
    /\ rq[q].resp = Inactive

\* C20: on the admin routes a request of an active user whose role is not
\* admin is answered 403 and changes nothing, and a step that changes a pets
\* or shop_products row is the handler of a request whose user is an admin.
C20_AuthorizeStep ==
  /\ \A q \in 1..MaxAuthReq :
       ( /\ rq[q].pc = "callback" /\ rq'[q] # rq[q]
         /\ rq[q].route \in AdminRoutes
         /\ rq[q].user # NoRow /\ rq[q].user.is_active
         /\ rq[q].user.role # "admin" )
         => /\ rq'[q].pc = "done" /\ rq'[q].resp = Forbidden
            /\ store' = store
  /\ <<pets, shop_products>>' # <<pets, shop_products>>
       => \E q \in 1..MaxAuthReq :
            /\ rq[q].pc = "handler" /\ rq'[q].pc = "done"
            /\ rq[q].route \in AdminRoutes
            /\ rq[q].user.role = "admin"

C20_AdminOnly == [][C20_AuthorizeStep]_vars

\* An update of a product or pet sent by an ordinary user was answered 403.
C20_Witness ==
  \E q \in 1..MaxAuthReq :
    /\ rq[q].pc = "done" /\ rq[q].resp = Forbidden
    /\ rq[q].route \in {"updateProduct", "updatePet"}
    /\ rq[q].user.role = "user"
    /\ shop_products[1].stock_quantity = InitStock
    /\ pets[1].is_available

\* C21: GET /api/pets/featured is handled by the featured-pets handler and
\* GET /api/users/stats by the user-statistics handler.
C21_NotShadowed ==
  /\ (routed.router = "pets" /\ routed.method = "GET" /\ routed.path = <<"featured">>)
       => routed.handler = "getFeaturedPets"
  /\ (routed.router = "users" /\ routed.method = "GET" /\ routed.path = <<"stats">>)
       => routed.handler = "getUserStats"

\* The payments rows of order o.
PaymentsOf(o) == {k \in DOMAIN payments : payments[k].order_id = o}

\* The INSERT INTO payments of order o is issued and its callback can still run.
InsertPending(o) ==
  up /\ \E r \in 1..MaxCreate : ci[r].pc = "insertPayment" /\ ci[r].orderId = o

\* C22: an order whose create-intent request was answered with success has,
\* once the INSERT of the handler is no longer pending, a payments row with
\* the id of its intent and its total_amount.
C22_PaymentRowOnSuccess ==
  \A o \in DOMAIN orders :
    (hist[o].answer = "created" /\ ~InsertPending(o)) =>
      \E k \in PaymentsOf(o) :
        /\ payments[k].stripe_payment_intent_id \in DOMAIN gateway
        /\ gateway[payments[k].stripe_payment_intent_id].order = o
        /\ payments[k].amount = orders[o].total_amount

\* C23: the step in which the creation of the intent fails changes no table
\* and answers 'Error creating payment intent' (unless the request has been
\* answered with an error before); the order of the request is in the store
\* with its items and without a payments row, pending unless a confirm has
\* confirmed it; and an order whose request was answered so never gets a
\* payments row.
C23_FailedStep ==
  \A r \in 1..MaxCreate :
    (ci[r].pc = "createIntent" /\ ci'[r].pc = "done" /\ gateway' = gateway)
      => /\ tables' = tables
         /\ last' = IF ci[r].resp = "none" THEN "Error creating payment intent" ELSE last
         /\ ci[r].orderId \in DOMAIN orders
         /\ ItemsOf(ci[r].orderId) # {}
         /\ PaymentsOf(ci[r].orderId) = {}
         /\ orders[ci[r].orderId].status = "pending" \/ hist[ci[r].orderId].confirmedBy # 0

C23_Orphan ==
  \A o \in DOMAIN orders :
    hist[o].answer = "Error creating payment intent"
      => PaymentsOf(o) = {} /\ ItemsOf(o) # {}

C23_GatewayFailure == [][C23_FailedStep]_vars /\ []C23_Orphan

\* The gateway refused the intent of an order; the order is pending, with
\* its items and no payments row, and the server is up.
C23_Witness ==
  /\ Quiescent
  /\ \E o \in DOMAIN orders :
       /\ hist[o].answer = "Error creating payment intent"
       /\ orders[o].status = "pending"
       /\ ItemsOf(o) # {} /\ PaymentsOf(o) = {}

\* Confirm request c names an order that belongs to another user.
Foreign(c) ==
  /\ cf[c].pc # "idle"
  /\ cf[c].order \in DOMAIN orders
  /\ orders[cf[c].order].user_id # cf[c].user

\* C24: a step of a confirm request for another user's order changes no row
\* of orders, order_items, payments, shop_products or pets; the request gets
\* no further than the order lookup, whose callback answers 'Order not
\* found' and ends the request.
C24_ForeignStep ==
  \A c \in 1..MaxConfirm :
    (Foreign(c) /\ cf'[c] # cf[c])
      => /\ tables' = tables
         /\ cf[c].pc \in {"arrived", "getOrder"}
         /\ cf[c].pc = "getOrder" => last' = "Order not found" /\ cf'[c] = DoneConfirm

C24_ForeignConfirmFails == [][C24_ForeignStep]_vars

\* A confirm was answered 'Order not found' while a pending order with a
\* succeeded intent is in the store.
C24_Witness ==
  /\ last = "Order not found"
  /\ \E o \in DOMAIN orders : \E i \in DOMAIN gateway :
       /\ orders[o].status = "pending"
       /\ gateway[i].order = o /\ gateway[i].status = "succeeded"

\* C25: a confirmed order was confirmed with the intent created for it.
C25_OwnIntent ==
  \A o \in DOMAIN orders :
    (Confirmed(o) /\ hist[o].confirmedBy # 0) => gateway[hist[o].confirmedBy].order = o

\* C27: when no request is in flight, a paid order confirmed with its own
\* intent has a payments row with status completed.
C27_PaidHasCompletedPayment ==
  Quiescent =>
    \A o \in DOMAIN orders :
      (/\ orders[o].payment_status = "paid"
       /\ hist[o].confirmedBy # 0
       /\ gateway[hist[o].confirmedBy].order = o)
        => \E k \in PaymentsOf(o) : payments[k].status = "completed"

\* C28: no step of a create-intent request takes the server down, that is,
\* no create-intent handler sends a second response.
C28_CreateStep == (up /\ ~up') => ci' = ci

C28_NoSecondResponse == [][C28_CreateStep]_vars

\* C29: the handler of DELETE /api/users/:id or PUT /api/users/:id, run for a
\* request of an admin, leaves the admin's own users row as it is.
C29_HandlerStep ==
  \A q \in 1..MaxAuthReq :
    ( /\ rq[q].pc = "handler" /\ rq'[q].pc = "done"
      /\ rq[q].route \in {"deleteUser", "updateUser"}
      /\ rq[q].user.role = "admin" )
      => users'[rq[q].user.id] = users[rq[q].user.id]

C29_NoSelfDeactivation == [][C29_HandlerStep]_vars

\* The orders confirmed with their own intent that have an order_items row
\* for pet p.
SoldIn(p) ==
  {o \in DOMAIN orders :
     /\ Confirmed(o)
     /\ hist[o].confirmedBy # 0
     /\ gateway[hist[o].confirmedBy].order = o
     /\ \E k \in ItemsOf(o) :
          order_items[k].item_type = "pet" /\ order_items[k].item_id = p}

\* C26: at most one confirmed order contains a given pet, even among the
\* orders that were confirmed with the intent created for them.
C26_PetSoldOnce == \A p \in PetIds : Cardinality(SoldIn(p)) <= 1

\* Register requests g and h name the same username or the same email.
SameAccount(g, h) == rg[g].username = rg[h].username \/ rg[g].email = rg[h].email

\* C30: no two users rows share a username or an email; of two register
\* requests with the same username or email at most one is answered with
\* success, and a finished one that was not is answered with an error; a
\* success answer means the row is in the table.
C30_UniqueAccounts ==
  /\ \A j, k \in DOMAIN accounts :
       j # k => /\ accounts[j].username # accounts[k].username
                /\ accounts[j].email # accounts[k].email
  /\ DOMAIN accounts = DOMAIN users
  /\ \A g, h \in 1..MaxRegister :
       (g # h /\ rg[g].pc = "done" /\ rg[h].pc = "done" /\ SameAccount(g, h))
         => ~(rg[g].resp = Registered /\ rg[h].resp = Registered)
  /\ \A g \in 1..MaxRegister :
       rg[g].pc = "done"
         => /\ rg[g].resp \in {Registered, Exists, CreateError}
            /\ rg[g].resp = Registered
                 => \E k \in DOMAIN accounts :
                      /\ accounts[k].username = rg[g].username
                      /\ accounts[k].email = rg[g].email

\* Two registrations with the same new username ran side by side: both passed
\* the lookup, one was registered and the other's INSERT was refused.
C30_Witness ==
  \E g, h \in 1..MaxRegister :
    /\ g # h
    /\ rg[g].pc = "done" /\ rg[h].pc = "done"
    /\ rg[g].username = rg[h].username
    /\ rg[g].resp = Registered /\ rg[h].resp = CreateError
====
